---- MODULE Spec2Model ----
(***************************************************************************)
(* RebalanceX: the rebalancing decision engine (calculateAllocations,      *)
(* calculateDeviations, generateActions) and the CCTP transfer pipeline    *)
(* (executeTransfer and its steps).                                        *)
(*                                                                         *)
(* Percentages are held in hundredths of a percent: calculateAllocations   *)
(* produces Number((balance * 10000n) / total) / 100, a decimal with two   *)
(* places, and the model keeps the integer (balance * 10000n) / total.     *)
(* Targets and thresholds are whole percentages, for which the IEEE double *)
(* comparisons of the code agree with the integer comparisons below.       *)
(***************************************************************************)
EXTENDS Integers, Sequences, FiniteSets, TLC

\* ------------------------------------------------------------------------
\* Bounds of the model
\* ------------------------------------------------------------------------
MaxBal == 5

MaxAmount == 1
\* iterations of the main loop that are explored
MaxCycles == 2

\* ------------------------------------------------------------------------
\* Inputs of the planner
\* ------------------------------------------------------------------------
\* default chain list of getAllBalances
Chains == <<"sepolia", "polygonAmoy", "arbitrumSepolia">>

N == Len(Chains)

Idx == 1..N

\* whole-percent targets offered to the planner
TargetPcts == {0, 20, 30, 40, 50, 60, 100}

\* whole-percent thresholds offered to the planner
Thresholds == {0, 5, 10}

RECURSIVE SumSeq(_)
SumSeq(s) == IF s = <<>> THEN 0 ELSE Head(s) + SumSeq(Tail(s))

\* parseTargetAllocation accepts percentages whose sum is within 0.01 of 100
TargetVectors == {t \in [Idx -> TargetPcts] : SumSeq(t) = 100}

BalanceVectors == [Idx -> 0..MaxBal]

\* ------------------------------------------------------------------------
\* bigint arithmetic
\* ------------------------------------------------------------------------
Abs(x) == IF x < 0 THEN -x ELSE x

\* bigint division truncates toward zero; callers guard b # 0
BigIntDivRoundsUp(a, b) ==
    IF (a >= 0) = (b > 0) THEN (Abs(a) + Abs(b) - 1) \div Abs(b)
    ELSE -(Abs(a) \div Abs(b))

BigIntDiv(a, b) ==
    IF (a >= 0) = (b > 0) THEN Abs(a) \div Abs(b) ELSE -(Abs(a) \div Abs(b))

\* ------------------------------------------------------------------------
\* Allocation calculator (monitor.ts)
\* ------------------------------------------------------------------------
\* ({ ...b, percentage })
WithPercentageOnly(b, percentage) ==
    [chain |-> b.chain, balance |-> 0, percentage |-> percentage]

WithPercentage(b, percentage) ==
    [chain |-> b.chain, balance |-> b.balance, percentage |-> percentage]

\* getBalance: the balanceOf read, or 0n when the read fails
getBalanceRethrows(ok, value) == [threw |-> ~ok, balance |-> value]

getBalance(ok, value) == [threw |-> FALSE, balance |-> IF ok THEN value ELSE 0]

\* balances.reduce((sum, b) => sum + b.balance, 0n)
Total(balances) == SumSeq([i \in Idx |-> balances[i].balance])

\* a division by a zero bigint total throws RangeError: the mutant drops the
\* total === 0n guard
\* arg is the caller's array as the call leaves it: map builds new objects
calculateAllocationsNoGuard(balances) ==
    LET total == Total(balances) IN
    IF total = 0
    THEN [fault |-> TRUE, out |-> balances, arg |-> balances]
    ELSE [fault |-> FALSE,
          out |-> [i \in DOMAIN balances |->
                     WithPercentage(balances[i],
                                    BigIntDiv(balances[i].balance * 10000, total))],
          arg |-> balances]

calculateAllocations(balances) ==
    LET total == Total(balances) IN
    IF total = 0
    THEN [fault |-> FALSE,
          out |-> [i \in DOMAIN balances |-> WithPercentage(balances[i], 0)],
          arg |-> balances]
    ELSE [fault |-> FALSE,
          out |-> [i \in DOMAIN balances |->
                     WithPercentage(balances[i],
                                    BigIntDiv(balances[i].balance * 10000, total))],
          arg |-> balances]

\* getAllBalances: placeholder percentage 0
RawBalances(b) ==
    [i \in Idx |-> [chain |-> Chains[i], balance |-> b[i], percentage |-> 0]]

\* ------------------------------------------------------------------------
\* Deviation calculator and planner helpers (rebalancer)
\* ------------------------------------------------------------------------
\* parseTargetAllocation: chains.map((chain, i) => ({chain, percentage}))
MakeTargets(t) == [i \in Idx |-> [chain |-> Chains[i], percentage |-> t[i]]]

\* targets.find((t) => t.chain === chain)?.percentage ?? 0
TargetPctOfMissingFull(targets, chain) ==
    IF \E j \in DOMAIN targets : targets[j].chain = chain
    THEN LET j == CHOOSE k \in DOMAIN targets :
                    /\ targets[k].chain = chain
                    /\ \A m \in DOMAIN targets : targets[m].chain = chain => k <= m
         IN targets[j].percentage
    ELSE 100

TargetPctOf(targets, chain) ==
    IF \E j \in DOMAIN targets : targets[j].chain = chain
    THEN LET j == CHOOSE k \in DOMAIN targets :
                    /\ targets[k].chain = chain
                    /\ \A m \in DOMAIN targets : targets[m].chain = chain => k <= m
         IN targets[j].percentage
    ELSE 0

\* current and deviation in hundredths of a percent, target in whole percent
calculateDeviations(currentBalances, targets) ==
    [i \in DOMAIN currentBalances |->
        LET targetPct == TargetPctOf(targets, currentBalances[i].chain) IN
        [chain |-> currentBalances[i].chain,
         current |-> currentBalances[i].percentage,
         target |-> targetPct,
         deviation |-> currentBalances[i].percentage - targetPct * 100]]

\* deviations.some((d) => Math.abs(d.deviation) > threshold)
needsRebalancingInclusive(deviations, threshold) ==
    \E i \in DOMAIN deviations : Abs(deviations[i].deviation) >= threshold * 100

needsRebalancing(deviations, threshold) ==
    \E i \in DOMAIN deviations : Abs(deviations[i].deviation) > threshold * 100

\* currentBalances.find((b) => b.chain === chain), as an index
FindBalance(currentBalances, chain) ==
    CHOOSE k \in DOMAIN currentBalances :
        /\ currentBalances[k].chain = chain
        /\ \A m \in DOMAIN currentBalances : currentBalances[m].chain = chain => k <= m

\* [...deviations].sort((a, b) => b.deviation - a.deviation): stable, descending
Perms(n) == {p \in [1..n -> 1..n] : \A i, j \in 1..n : i # j => p[i] # p[j]}

SortAsc(devs) ==
    LET n == Len(devs)
        p == CHOOSE q \in Perms(n) :
                \A i, j \in 1..n : i < j =>
                    \/ devs[q[i]].deviation < devs[q[j]].deviation
                    \/ /\ devs[q[i]].deviation = devs[q[j]].deviation
                       /\ q[i] < q[j]
    IN [i \in 1..n |-> devs[p[i]]]

SortDesc(devs) ==
    LET n == Len(devs)
        p == CHOOSE q \in Perms(n) :
                \A i, j \in 1..n : i < j =>
                    \/ devs[q[i]].deviation > devs[q[j]].deviation
                    \/ /\ devs[q[i]].deviation = devs[q[j]].deviation
                       /\ q[i] < q[j]
    IN [i \in 1..n |-> devs[p[i]]]

Reverse(s) == [i \in 1..Len(s) |-> s[Len(s) + 1 - i]]

\* sorted.filter((d) => d.deviation > threshold)
RECURSIVE OverAllocatedInclusive(_, _)
OverAllocatedInclusive(sorted, threshold) ==
    IF sorted = <<>> THEN <<>>
    ELSE IF Head(sorted).deviation >= threshold * 100
         THEN <<Head(sorted)>> \o OverAllocatedInclusive(Tail(sorted), threshold)
         ELSE OverAllocatedInclusive(Tail(sorted), threshold)

RECURSIVE OverAllocated(_, _)
OverAllocated(sorted, threshold) ==
    IF sorted = <<>> THEN <<>>
    ELSE IF Head(sorted).deviation > threshold * 100
         THEN <<Head(sorted)>> \o OverAllocated(Tail(sorted), threshold)
         ELSE OverAllocated(Tail(sorted), threshold)

RECURSIVE FilterUnder(_, _)
FilterUnder(sorted, threshold) ==
    IF sorted = <<>> THEN <<>>
    ELSE IF Head(sorted).deviation < -(threshold * 100)
         THEN <<Head(sorted)>> \o FilterUnder(Tail(sorted), threshold)
         ELSE FilterUnder(Tail(sorted), threshold)

\* sorted.filter((d) => d.deviation < -threshold).reverse()
UnderAllocatedUnreversed(sorted, threshold) == FilterUnder(sorted, threshold)

UnderAllocated(sorted, threshold) == Reverse(FilterUnder(sorted, threshold))

\* (totalBalance * BigInt(Math.round(target * 100))) / 10000n
TargetAmount(totalBalance, target) == BigIntDiv(totalBalance * (target * 100), 10000)

\* ------------------------------------------------------------------------
\* State
\* ------------------------------------------------------------------------
VARIABLES
    currentBalances,  \* the caller's ChainBalance array; generateActions updates it in place
    inputBalances,    \* the same array as it was when generateActions was called
    targets,          \* TargetAllocation[]
    threshold,        \* whole percent
    sorted,           \* generateActions: deviations sorted descending
    overAllocated,    \* generateActions: sources, descending deviation
    underAllocated,   \* generateActions: destinations, ascending deviation
    overIndex,        \* cursor into overAllocated (0-based)
    underIndex,       \* cursor into underAllocated (0-based)
    totalBalance,     \* pool total frozen at the start of planning
    actions,          \* RebalanceAction[] emitted so far
    lastPair,         \* the pairing examined by the latest loop iteration
    ppc,              \* position in generateActions: "call", "loop", "done"
    run,              \* 1: first planning pass, 2: pass on the resulting balances
    firstPlan,        \* the actions returned by the first pass
    fault             \* a RangeError (bigint division by zero) was thrown

pvars == <<currentBalances, inputBalances, targets, threshold, sorted,
           overAllocated, underAllocated, overIndex, underIndex, totalBalance,
           actions, lastPair, ppc, run, firstPlan, fault>>

VARIABLES
    xpc,              \* position in executeTransfer
    dryRun,           \* executeTransfer's dryRun argument
    amount,           \* action.amount
    allowance,        \* on-chain USDC allowance of the token messenger
    attempt,          \* withRetry: attempt number of the running step
    pollAttempt,      \* waitForAttestation: attempt
    calls,            \* external calls issued so far, per kind
    commits,          \* transactions committed on chain so far, per kind
    finished,         \* steps whose await has returned normally
    thrown,           \* the step whose error reached executeTransfer's catch, or "none"
    burnOut,          \* what burnUSDC returned: txHash, messageHash
    lastError,        \* the error of the latest failed call of the running step
    result,           \* the TransferResult returned so far, or NoResult
    retryOptions,     \* withRetry: the options argument
    delayMs,          \* withRetry: delayMs
    sleeps,           \* withRetry: the delays slept so far by the running call
    gas,              \* estimateGas: the estimate and the limit of the latest submission
    lastPoll          \* waitForAttestation: the latest poll, its key and the sleep after it

xvars == <<xpc, dryRun, amount, allowance, attempt, pollAttempt, calls,
           commits, finished, thrown, burnOut, lastError, result,
           retryOptions, delayMs, sleeps, gas, lastPoll>>

VARIABLES
    mpc,              \* position in main's loop
    running,          \* main: cleared by the SIGINT handler
    runOnce,          \* the --once option
    optTarget,        \* the --target option, as the parsed list of numbers
    cpc,              \* position in rebalanceCycle
    cycles,           \* rebalance cycles started so far
    fetches,          \* getCurrentState calls so far
    readFailed,       \* chains whose balanceOf read failed in this cycle
    rawBalances,      \* what getAllBalances returned, as calculateAllocations left it
    cycleDeviations,  \* rebalanceCycle: deviations of the fetched state
    execIndex,        \* rebalanceCycle: actions handled by the for loop
    executed,         \* actions passed to executeTransfer in this cycle, in order
    outcomes,         \* result.success of each executeTransfer call of this cycle
    hasError,         \* rebalanceCycle: hasError
    cycleReturn,      \* what rebalanceCycle returned: "none", "true", "false", "threw"
    walletCache,      \* executors/arc.ts: walletCache, chain name -> wallet, 0 when absent
    walletUsed        \* the wallets getWallet has returned so far, per chain name

cvars == <<mpc, running, runOnce, optTarget, cpc, cycles, fetches, readFailed,
           rawBalances, cycleDeviations,
           execIndex, executed, outcomes, hasError, cycleReturn,
           walletCache, walletUsed>>

vars == <<pvars, xvars, cvars>>

\* RETRY_CONFIG.maxAttempts, and { maxAttempts: 3 } at each withRetry call
RetryMaxAttempts == 3

\* RETRY_CONFIG.initialDelayMs
InitialDelayMs == 1000

\* RETRY_CONFIG.maxDelayMs
MaxDelayMs == 30000

\* RETRY_CONFIG.backoffMultiplier
BackoffMultiplier == 2

\* ATTESTATION_CONFIG.maxAttempts
AttestationMaxAttempts == 120

\* ATTESTATION_CONFIG.intervalMs
IntervalMs == 10000

\* ATTESTATION_CONFIG.fastIntervalMs
FastIntervalMs == 5000

\* ATTESTATION_CONFIG.fastPollAttempts
FastPollAttempts == 12

\* GAS_CONFIG.bufferPercent
BufferPercent == 20

\* GAS_CONFIG.maxGasLimit
MaxGasLimit == 500000

NoError == [message |-> "none", attempt |-> 0]

\* no transaction has been submitted yet
NoGas == [estimate |-> 0, limit |-> 0]

\* waitForAttestation has not polled yet
NoPoll == [outcome |-> "none", key |-> "undefined", interval |-> 0]

NoCalls == [allowance |-> 0, approve |-> 0, burn |-> 0, poll |-> 0, mint |-> 0]

NoTx == [approve |-> 0, burn |-> 0, mint |-> 0]

NoBurn == [txHash |-> "undefined", messageHash |-> "undefined"]

NoResult == [returned |-> FALSE, success |-> FALSE, burnTxHash |-> "undefined",
             mintTxHash |-> "undefined", messageHash |-> "undefined",
             error |-> "undefined"]

\* the transfer pipeline before executeTransfer is called
PipelineIdle ==
    /\ xpc = "idle"
    /\ attempt = 0
    /\ pollAttempt = 0
    /\ calls = [rpc |-> NoCalls, submitted |-> NoTx]
    /\ commits = NoTx
    /\ finished = {}
    /\ thrown = "none"
    /\ burnOut = NoBurn
    /\ lastError = NoError
    /\ result = NoResult
    /\ retryOptions = [maxAttempts |-> RetryMaxAttempts]
    /\ delayMs = InitialDelayMs
    /\ sleeps = <<>>
    /\ gas = NoGas
    /\ lastPoll = NoPoll

\* main and rebalanceCycle before the loop is entered
CycleIdle ==
    /\ mpc = "loop"
    /\ running = TRUE
    /\ cpc = "idle"
    /\ cycles = 0
    /\ fetches = 0
    /\ readFailed = {}
    /\ rawBalances = RawBalances([i \in Idx |-> 0])
    /\ cycleDeviations = <<>>
    /\ execIndex = 0
    /\ executed = <<>>
    /\ outcomes = <<>>
    /\ hasError = FALSE
    /\ cycleReturn = "none"
    /\ walletCache = [name \in {"sepolia", "polygonAmoy", "arbitrumSepolia"} |-> 0]
    /\ walletUsed = [name \in {"sepolia", "polygonAmoy", "arbitrumSepolia"} |-> {}]

NoPair == [from |-> "", to |-> "", excessFrom |-> 0, deficitTo |-> 0,
           transferAmount |-> 0, emitted |-> FALSE]

\* ------------------------------------------------------------------------
\* generateActions
\* ------------------------------------------------------------------------
\* const transferAmount = excessFrom < deficitTo ? excessFrom : deficitTo
TransferAmountMax(excessFrom, deficitTo) ==
    IF excessFrom < deficitTo THEN deficitTo ELSE excessFrom

TransferAmount(excessFrom, deficitTo) ==
    IF excessFrom < deficitTo THEN excessFrom ELSE deficitTo

\* if (transferAmount > 0n)
EmitsZero(transferAmount) == transferAmount >= 0

Emits(transferAmount) == transferAmount > 0

\* fromBalance.balance -= transferAmount; toBalance.balance += transferAmount
UpdateBalancesNoCredit(balances, fi, ti, transferAmount) ==
    [balances EXCEPT ![fi].balance = @ - transferAmount]

UpdateBalances(balances, fi, ti, transferAmount) ==
    [balances EXCEPT ![fi].balance = @ - transferAmount,
                     ![ti].balance = @ + transferAmount]

\* if (excessFrom <= deficitTo) overIndex++
NextOverIndexStuck(oi, excessFrom, deficitTo) == oi

NextOverIndex(oi, excessFrom, deficitTo) ==
    IF excessFrom <= deficitTo THEN oi + 1 ELSE oi

\* if (deficitTo <= excessFrom) underIndex++
NextUnderIndexAlways(ui, excessFrom, deficitTo) == ui + 1

NextUnderIndex(ui, excessFrom, deficitTo) ==
    IF deficitTo <= excessFrom THEN ui + 1 ELSE ui

\* lines 120-148: deviations, sort, pool total, partition, cursors
PlanCall ==
    /\ ppc = "call"
    /\ LET deviations == calculateDeviations(currentBalances, targets)
           s == SortDesc(deviations)
       IN /\ sorted' = s
          /\ overAllocated' = OverAllocated(s, threshold)
          /\ underAllocated' = UnderAllocated(s, threshold)
    /\ totalBalance' = Total(currentBalances)
    /\ inputBalances' = currentBalances
    /\ actions' = <<>>
    /\ overIndex' = 0
    /\ underIndex' = 0
    /\ lastPair' = NoPair
    /\ ppc' = "loop"
    /\ UNCHANGED <<currentBalances, targets, threshold, run, firstPlan, fault>>
    /\ UNCHANGED xvars
    /\ UNCHANGED cvars

\* lines 150-193: one iteration of the pairing loop
PlanStep ==
    /\ ppc = "loop"
    /\ overIndex < Len(overAllocated)
    /\ underIndex < Len(underAllocated)
    /\ LET from == overAllocated[overIndex + 1]
           to == underAllocated[underIndex + 1]
           fi == FindBalance(currentBalances, from.chain)
           ti == FindBalance(currentBalances, to.chain)
           targetFrom == TargetAmount(totalBalance, from.target)
           targetTo == TargetAmount(totalBalance, to.target)
           excessFrom == currentBalances[fi].balance - targetFrom
           deficitTo == targetTo - currentBalances[ti].balance
           transferAmount == TransferAmount(excessFrom, deficitTo)
       IN /\ IF Emits(transferAmount)
             THEN /\ actions' = Append(actions,
                        [from |-> from.chain, to |-> to.chain,
                         amount |-> transferAmount, type |-> "transfer"])
                  /\ currentBalances' =
                        UpdateBalances(currentBalances, fi, ti, transferAmount)
             ELSE UNCHANGED <<actions, currentBalances>>
          /\ lastPair' = [from |-> from.chain, to |-> to.chain,
                          excessFrom |-> excessFrom, deficitTo |-> deficitTo,
                          transferAmount |-> transferAmount,
                          emitted |-> Emits(transferAmount)]
          /\ overIndex' = NextOverIndex(overIndex, excessFrom, deficitTo)
          /\ underIndex' = NextUnderIndex(underIndex, excessFrom, deficitTo)
    /\ UNCHANGED <<inputBalances, targets, threshold, sorted, overAllocated,
                   underAllocated, totalBalance, ppc, run, firstPlan, fault>>
    /\ UNCHANGED xvars
    /\ UNCHANGED cvars

\* lines 195-201: a cursor is exhausted, the plan is returned
PlanReturn ==
    /\ ppc = "loop"
    /\ ~(overIndex < Len(overAllocated) /\ underIndex < Len(underAllocated))
    /\ ppc' = "done"
    /\ firstPlan' = IF run = 1 THEN actions ELSE firstPlan
    /\ UNCHANGED <<currentBalances, inputBalances, targets, threshold, sorted,
                   overAllocated, underAllocated, overIndex, underIndex,
                   totalBalance, actions, lastPair, run, fault>>
    /\ UNCHANGED xvars
    /\ UNCHANGED cvars

\* the next pass: percentages recomputed from the balances the plan leaves
\* (getCurrentState -> calculateAllocations), then generateActions again
Recompute ==
    /\ ppc = "done"
    /\ run = 1
    /\ LET r == calculateAllocations(currentBalances)
       IN /\ currentBalances' = r.out
          /\ fault' = (fault \/ r.fault)
    /\ run' = 2
    /\ ppc' = "call"
    /\ UNCHANGED <<inputBalances, targets, threshold, sorted, overAllocated,
                   underAllocated, overIndex, underIndex, totalBalance,
                   actions, lastPair, firstPlan>>
    /\ UNCHANGED xvars
    /\ UNCHANGED cvars

InitPlanner ==
    /\ \E b \in BalanceVectors :
         LET r == calculateAllocations(RawBalances(b))
         IN /\ currentBalances = r.out
            /\ inputBalances = r.out
            /\ fault = r.fault
    /\ \E t \in TargetVectors : targets = MakeTargets(t)
    /\ threshold \in Thresholds
    /\ sorted = <<>>
    /\ overAllocated = <<>>
    /\ underAllocated = <<>>
    /\ overIndex = 0
    /\ underIndex = 0
    /\ totalBalance = 0
    /\ actions = <<>>
    /\ lastPair = NoPair
    /\ ppc = "call"
    /\ run = 1
    /\ firstPlan = <<>>
    /\ PipelineIdle
    /\ dryRun = FALSE
    /\ amount = 1
    /\ allowance = 0
    /\ CycleIdle
    /\ runOnce = TRUE
    /\ optTarget = <<>>

NextPlanner == PlanCall \/ PlanStep \/ PlanReturn \/ Recompute

SpecPlanner == InitPlanner /\ [][NextPlanner]_vars

\* ------------------------------------------------------------------------
\* generateActions as an exported function: any arguments its types and
\* parseTargetAllocation admit
\* ------------------------------------------------------------------------
\* the balances of the worked example, in whole USDC (10^6 base units):
\* every quantity of the example is a multiple of 10^6 and its divisions are
\* exact, so the unit changes no result
ExampleBalances == <<60, 20, 20>>

ExampleTargets == <<40, 30, 30>>

\* target lists: accepted by parseTargetAllocation (negative entries pass the
\* sum check), listed in another chain order, or without an entry for a chain
ApiTargets ==
    {MakeTargets(ExampleTargets),
     MakeTargets(<<-50, 100, 50>>),
     MakeTargets(<<150, -50, 0>>),
     <<[chain |-> "arbitrumSepolia", percentage |-> 30],
       [chain |-> "polygonAmoy", percentage |-> 30],
       [chain |-> "sepolia", percentage |-> 40]>>,
     <<[chain |-> "sepolia", percentage |-> 50],
       [chain |-> "polygonAmoy", percentage |-> 50]>>}

InitPlannerApi ==
    /\ \E b \in BalanceVectors \cup {ExampleBalances} :
         LET r == calculateAllocations(RawBalances(b))
         IN /\ currentBalances = r.out
            /\ inputBalances = r.out
            /\ fault = r.fault
    /\ targets \in ApiTargets
    /\ threshold \in Thresholds
    /\ sorted = <<>>
    /\ overAllocated = <<>>
    /\ underAllocated = <<>>
    /\ overIndex = 0
    /\ underIndex = 0
    /\ totalBalance = 0
    /\ actions = <<>>
    /\ lastPair = NoPair
    /\ ppc = "call"
    /\ run = 1
    /\ firstPlan = <<>>
    /\ PipelineIdle
    /\ dryRun = FALSE
    /\ amount = 1
    /\ allowance = 0
    /\ CycleIdle
    /\ runOnce = TRUE
    /\ optTarget = <<>>

SpecPlannerApi == InitPlannerApi /\ [][NextPlanner]_vars

\* ------------------------------------------------------------------------
\* Planner properties
\* ------------------------------------------------------------------------
RECURSIVE SumAmounts(_)
SumAmounts(as) == IF as = <<>> THEN 0 ELSE Head(as).amount + SumAmounts(Tail(as))

\* deviation of a chain as generateActions saw it at the call
DeviationAtCall(chain) ==
    LET i == CHOOSE k \in DOMAIN sorted : sorted[k].chain = chain
    IN sorted[i].deviation

TargetAmountOf(chain) == TargetAmount(totalBalance, TargetPctOf(targets, chain))

BalanceOf(balances, chain) == balances[FindBalance(balances, chain)].balance

Outflow == SumSeq([i \in Idx |->
              IF inputBalances[i].balance > currentBalances[i].balance
              THEN inputBalances[i].balance - currentBalances[i].balance ELSE 0])

Inflow == SumSeq([i \in Idx |->
              IF currentBalances[i].balance > inputBalances[i].balance
              THEN currentBalances[i].balance - inputBalances[i].balance ELSE 0])

\* every target amount is a whole number of base units, so that balances
\* meeting every target exactly exist
TargetsAttainable ==
    /\ Total(inputBalances) > 0
    /\ \A i \in Idx :
          (Total(inputBalances) * (targets[i].percentage * 100)) % 10000 = 0

\* C2: after the plan of the first pass is applied and the percentages are
\* recomputed, no chain deviates from its target by more than the threshold
\* (stated for the pools whose targets are attainable in whole base units).
C2_PlanResolvesAllDeviations ==
    (ppc = "done" /\ run = 1 /\ TargetsAttainable) =>
        ~needsRebalancing(
            calculateDeviations(calculateAllocations(currentBalances).out, targets),
            threshold)

\* C3: after every emitted action the source's working balance is at least its
\* target amount and the destination's working balance is at most its target
\* amount.
C3_NoOvershoot ==
    lastPair.emitted =>
        /\ BalanceOf(currentBalances, lastPair.from) >= TargetAmountOf(lastPair.from)
        /\ BalanceOf(currentBalances, lastPair.to) <= TargetAmountOf(lastPair.to)

C3_Witness ==
    /\ lastPair.emitted
    /\ Len(actions) >= 2
    /\ lastPair.excessFrom # lastPair.deficitTo

\* C4: every action's source deviates by more than +threshold and its
\* destination by less than -threshold; a chain within the threshold keeps its
\* balance.
C4_WithinThresholdUntouched ==
    (ppc \in {"loop", "done"}) =>
        /\ \A k \in DOMAIN actions :
              /\ DeviationAtCall(actions[k].from) > threshold * 100
              /\ DeviationAtCall(actions[k].to) < -(threshold * 100)
        /\ \A i \in Idx :
              Abs(DeviationAtCall(Chains[i])) <= threshold * 100 =>
                  currentBalances[i].balance = inputBalances[i].balance

C4_Witness ==
    /\ ppc = "done"
    /\ actions # <<>>
    /\ threshold > 0
    /\ \E i \in Idx : Abs(DeviationAtCall(Chains[i])) = threshold * 100

\* C5: the amounts leaving the sources equal the amounts arriving at the
\* destinations, and the pool total is unchanged by the plan.
C5_Conservation ==
    (ppc \in {"loop", "done"}) =>
        /\ Outflow = SumAmounts(actions)
        /\ Inflow = SumAmounts(actions)
        /\ Total(currentBalances) = Total(inputBalances)

C5_Witness ==
    /\ ppc = "done"
    /\ Len(actions) >= 2
    /\ Outflow > 0

\* C6: planning again on the balances the first plan leaves, with the
\* percentages recomputed, transfers nothing.
C6_SecondPassAtRest ==
    (ppc = "done" /\ run = 2) => SumAmounts(actions) = 0

C6_Witness ==
    /\ ppc = "done"
    /\ run = 2
    /\ firstPlan # <<>>
    /\ lastPair # NoPair

\* C7: every emitted action has a positive amount; a pairing whose amount is
\* zero or negative emits nothing.
C7_PositiveAmounts ==
    /\ \A k \in DOMAIN actions : actions[k].amount > 0
    /\ (lastPair # NoPair /\ lastPair.transferAmount <= 0) => ~lastPair.emitted

C7_Witness ==
    /\ lastPair # NoPair
    /\ lastPair.transferAmount <= 0
    /\ ~lastPair.emitted
    /\ overIndex + underIndex >= 1

\* C8: with a zero pool total the plan is empty and no division by zero is
\* raised by calculateAllocations or generateActions.
C8_ZeroTotalEmptyPlan ==
    (Total(inputBalances) = 0) =>
        /\ ~fault
        /\ actions = <<>>
        /\ (ppc = "done" => Total(currentBalances) = 0)

C8_Witness ==
    /\ Total(inputBalances) = 0
    /\ ppc = "done"
    /\ run = 2
    /\ underAllocated # <<>>

\* ------------------------------------------------------------------------
\* Transfer pipeline (executors/arc.ts)
\* ------------------------------------------------------------------------
\* What one run of a withRetry operation (estimateGas, submit, tx.wait) can do:
\*   ok                    the transaction is committed and the receipt returned
\*   transient_presubmit   a network error before the transaction was sent
\*   transient_postsubmit  the transaction was sent and is committed, but
\*                         waiting for its receipt failed with a network error
\*   rejected              the node rejects the call (execution reverted)
AttemptOutcomes == {"ok", "transient_presubmit", "transient_postsubmit", "rejected"}

\* error messages the node, the provider or the network can produce
TransientMessages == {"network timeout", "unexpected failure"}

RejectionMessages == {"Insufficient Funds for gas", "nonce too low",
                      "replacement transaction underpriced",
                      "execution reverted: ERC20", "already known"}

ErrorMessages == TransientMessages \cup RejectionMessages

ErrorsOf(outcome) ==
    CASE outcome = "ok" -> {"none"}
      [] outcome = "rejected" -> RejectionMessages
      [] OTHER -> TransientMessages

\* String.prototype.toLowerCase on the messages above
ToLowerCase(message) ==
    CASE message = "Insufficient Funds for gas" -> "insufficient funds for gas"
      [] message = "execution reverted: ERC20" -> "execution reverted: erc20"
      [] OTHER -> message

\* message.includes(msg): the substring relation on the messages above, in
\* their original and lower-cased spelling, and the listed substrings
Includes(message, msg) ==
    <<message, msg>> \in
        {<<"network timeout", "timeout">>,
         <<"insufficient funds for gas", "insufficient funds">>,
         <<"nonce too low", "nonce too low">>,
         <<"replacement transaction underpriced", "replacement transaction underpriced">>,
         <<"execution reverted: ERC20", "execution reverted">>,
         <<"execution reverted: erc20", "execution reverted">>,
         <<"already known", "already known">>}

nonRetryable == {"insufficient funds", "nonce too low",
                 "replacement transaction underpriced", "already known",
                 "invalid signature", "execution reverted"}

retryable == {"timeout", "network error", "rate limit", "server error", "502",
              "503", "504", "ETIMEDOUT", "ECONNRESET", "ENOTFOUND"}

\* nonRetryable.some(...) ? false : (retryable.some(...) || true)
isRetryableErrorCaseSensitive(error) ==
    IF \E msg \in nonRetryable : Includes(error, msg)
    THEN FALSE
    ELSE (\E msg \in retryable : Includes(error, msg)) \/ TRUE

isRetryableError(error) ==
    LET message == ToLowerCase(error) IN
    IF \E msg \in nonRetryable : Includes(message, msg)
    THEN FALSE
    ELSE (\E msg \in retryable : Includes(message, msg)) \/ TRUE

\* withRetry, lines 90-119: what follows one run of the operation
RetryDecisionUnbounded(att, maxAttempts, outcome, message) ==
    IF outcome = "ok" THEN "return"
    ELSE IF ~isRetryableError(message) THEN "throw"
    ELSE "retry"

RetryDecision(att, maxAttempts, outcome, message) ==
    IF outcome = "ok" THEN "return"
    ELSE IF att = maxAttempts THEN "throw"
    ELSE IF ~isRetryableError(message) THEN "throw"
    ELSE "retry"

Submitted(outcome) == outcome \in {"ok", "transient_postsubmit"}

\* executeTransfer's try block: the statement after a step that returned
NextStepSkipsBurn(step) ==
    CASE step = "approve" -> "attest_poll"
      [] step = "burn" -> "attest_poll"
      [] step = "attest" -> "mint_try"
      [] step = "mint" -> "returned"

NextStep(step) ==
    CASE step = "approve" -> "burn_try"
      [] step = "burn" -> "attest_poll"
      [] step = "attest" -> "mint_try"
      [] step = "mint" -> "returned"

\* executeTransfer's catch block ends the call: lines 522-536
AfterThrowContinues(step) ==
    CASE step = "wallet" -> "returned"
      [] step = "approve" -> "burn_try"
      [] step = "burn" -> "attest_poll"
      [] step = "attest" -> "mint_try"
      [] step = "mint" -> "returned"

AfterThrow(step) == "returned"

\* while (attempt < config.maxAttempts)
PollAllowedOffByOne(att) == att <= AttestationMaxAttempts

PollAllowed(att) == att < AttestationMaxAttempts

Bump(c, kind, field) == [c EXCEPT ![field][kind] = @ + 1]

\* the try block of executeTransfer spans lines 481-521: getWallet and all
\* four steps are awaited inside it
InsideTryExceptWallet(step) == step # "wallet"

InsideTry(step) == TRUE

\* where control goes when a step throws
ThrowTarget(step) == IF InsideTry(step) THEN AfterThrow(step) ELSE "escaped"

\* an error reaches the catch block of executeTransfer
Catch(step, message) ==
    /\ thrown' = step
    /\ xpc' = ThrowTarget(step)
    /\ result' = [NoResult EXCEPT !.returned = (ThrowTarget(step) = "returned"),
                                  !.success = FALSE,
                                  !.error = message]

\* if (dryRun) return { success: true }
SkipsExecutionNever(dry) == FALSE

SkipsExecution(dry) == dry

\* lines 466-482: dry run short-circuit, else getWallet(from)
Start ==
    /\ xpc = "idle"
    /\ IF SkipsExecution(dryRun)
       THEN /\ xpc' = "returned"
            /\ result' = [NoResult EXCEPT !.returned = TRUE, !.success = TRUE]
            /\ UNCHANGED thrown
       ELSE \E walletOk \in BOOLEAN :
              IF walletOk
              THEN /\ xpc' = "approve_check"
                   /\ UNCHANGED <<result, thrown>>
              ELSE Catch("wallet", "PRIVATE_KEY not set")
    /\ UNCHANGED <<dryRun, amount, allowance, attempt, pollAttempt, calls,
                   commits, finished, burnOut, lastError>>
    /\ UNCHANGED <<retryOptions, delayMs, sleeps, gas, lastPoll>>
    /\ UNCHANGED pvars
    /\ UNCHANGED cvars

\* approveUSDC lines 229-241: the allowance read and the early return
ApproveCheck ==
    /\ xpc = "approve_check"
    /\ calls' = Bump(calls, "allowance", "rpc")
    /\ \/ \E message \in ErrorMessages :
            /\ Catch("approve", message)
            /\ lastError' = [message |-> message, attempt |-> 1]
            /\ UNCHANGED <<finished, attempt>>
       \/ /\ IF allowance >= amount
             THEN /\ finished' = finished \cup {"approve"}
                  /\ xpc' = NextStep("approve")
                  /\ attempt' = 1
                  /\ UNCHANGED <<result, thrown>>
             ELSE /\ xpc' = "approve_try"
                  /\ attempt' = 1
                  /\ UNCHANGED <<finished, result, thrown>>
          /\ UNCHANGED lastError
    /\ UNCHANGED <<dryRun, amount, allowance, pollAttempt, commits, burnOut>>
    /\ UNCHANGED <<retryOptions, delayMs, sleeps, gas, lastPoll>>
    /\ UNCHANGED pvars
    /\ UNCHANGED cvars

\* one run of a withRetry operation for step `step` in position `pc`
\* a submitted approve sets the allowance to the amount; a submitted
\* depositForBurn spends the amount out of the allowance
AllowanceAfter(step, outcome, allow, amt) ==
    IF ~Submitted(outcome) THEN allow
    ELSE CASE step = "approve" -> amt
           [] step = "burn" -> allow - amt
           [] OTHER -> allow

\* depositForBurn cannot be mined when the allowance does not cover the amount
CanHappen(step, outcome, allow, amt) ==
    (step = "burn" /\ Submitted(outcome)) => allow >= amt

\* withRetry line 111: delayMs = Math.min(delayMs * backoffMultiplier, maxDelayMs)
NextDelayUncapped(delay) == delay * BackoffMultiplier

NextDelay(delay) ==
    IF delay * BackoffMultiplier < MaxDelayMs
    THEN delay * BackoffMultiplier
    ELSE MaxDelayMs

\* estimateGas lines 198-203: the buffered estimate, capped at maxGasLimit
estimateGasUncapped(gasEstimate) == (gasEstimate * (100 + BufferPercent)) \div 100

estimateGas(gasEstimate) ==
    LET gasLimit == (gasEstimate * (100 + BufferPercent)) \div 100
    IN IF gasLimit > MaxGasLimit THEN MaxGasLimit ELSE gasLimit

\* what contract.<method>.estimateGas answers in a pipeline run
NominalEstimates == {100000}

\* burnUSDC lines 296-325: the hash of the MessageSent payload, or the
\* transaction hash when the receipt carries no such event
MessageHashNoFallback(eventFound, txHash) ==
    IF eventFound THEN "keccak256(messageBytes)" ELSE ""

MessageHash(eventFound, txHash) ==
    IF eventFound THEN "keccak256(messageBytes)" ELSE txHash

TryStep(pc, step, estimates) ==
    /\ xpc = pc
    /\ \E outcome \in AttemptOutcomes : \E message \in ErrorsOf(outcome) :
       \E gasEstimate \in estimates :
         LET decision == RetryDecision(attempt, retryOptions.maxAttempts, outcome, message)
             c1 == Bump(calls, step, "rpc")
         IN /\ CanHappen(step, outcome, allowance, amount)
            /\ lastError' = IF outcome = "ok" THEN NoError
                            ELSE [message |-> message, attempt |-> attempt]
            /\ calls' = IF Submitted(outcome) THEN Bump(c1, step, "submitted") ELSE c1
            /\ commits' = IF Submitted(outcome)
                          THEN [commits EXCEPT ![step] = @ + 1] ELSE commits
            /\ allowance' = AllowanceAfter(step, outcome, allowance, amount)
            /\ gas' = IF Submitted(outcome)
                      THEN [estimate |-> gasEstimate, limit |-> estimateGas(gasEstimate)]
                      ELSE gas
            /\ CASE decision = "retry" ->
                      /\ attempt' = attempt + 1
                      /\ sleeps' = Append(sleeps, delayMs)
                      /\ delayMs' = NextDelay(delayMs)
                      /\ UNCHANGED <<xpc, finished, thrown, result, burnOut>>
                 [] decision = "throw" ->
                      /\ Catch(step, message)
                      /\ attempt' = 1
                      /\ UNCHANGED <<finished, burnOut, sleeps, delayMs>>
                 [] decision = "return" ->
                      /\ finished' = finished \cup {step}
                      /\ xpc' = NextStep(step)
                      /\ attempt' = 1
                      /\ sleeps' = <<>>
                      /\ delayMs' = InitialDelayMs
                      /\ UNCHANGED thrown
                      /\ IF step = "burn"
                         THEN \E eventFound \in BOOLEAN :
                                burnOut' = [txHash |-> "burnTx",
                                            messageHash |-> MessageHash(eventFound, "burnTx")]
                         ELSE UNCHANGED burnOut
                      /\ IF step = "mint"
                         THEN result' = [returned |-> TRUE, success |-> TRUE,
                                         burnTxHash |-> burnOut.txHash,
                                         mintTxHash |-> "mintTx",
                                         messageHash |-> burnOut.messageHash,
                                         error |-> "undefined"]
                         ELSE UNCHANGED result
    /\ UNCHANGED <<dryRun, amount, pollAttempt, retryOptions, lastPoll>>
    /\ UNCHANGED pvars
    /\ UNCHANGED cvars

\* approveUSDC lines 242-260
ApproveTry == TryStep("approve_try", "approve", NominalEstimates)

\* burnUSDC lines 278-337
BurnTry == TryStep("burn_try", "burn", NominalEstimates)

\* receiveMessage lines 431-455
MintTry == TryStep("mint_try", "mint", NominalEstimates)

\* what one poll of the attestation API can return
PollOutcomes == {"http_404", "http_error", "exception", "pending_confirmations",
                 "complete_without_attestation", "complete"}

\* line 381: data.status === 'complete' && data.attestation && data.message
PollCompletesOnStatus(outcome) ==
    outcome \in {"complete", "complete_without_attestation"}

PollCompletes(outcome) == outcome = "complete"

\* line 357: attempt <= fastPollAttempts ? fastIntervalMs : intervalMs
PollIntervalStrict(att) ==
    IF att < FastPollAttempts THEN FastIntervalMs ELSE IntervalMs

PollInterval(att) ==
    IF att <= FastPollAttempts THEN FastIntervalMs ELSE IntervalMs

\* waitForAttestation lines 359-408: one iteration of the polling loop
Poll ==
    /\ xpc = "attest_poll"
    /\ PollAllowed(pollAttempt)
    /\ pollAttempt' = pollAttempt + 1
    /\ calls' = Bump(calls, "poll", "rpc")
    /\ \E outcome \in PollOutcomes :
         /\ lastPoll' = [outcome |-> outcome,
                         key |-> burnOut.messageHash,
                         interval |-> IF PollCompletes(outcome) THEN 0
                                      ELSE PollInterval(pollAttempt + 1)]
         /\ IF PollCompletes(outcome)
            THEN /\ finished' = finished \cup {"attest"}
                 /\ xpc' = NextStep("attest")
            ELSE UNCHANGED <<finished, xpc>>
    /\ UNCHANGED <<dryRun, amount, allowance, attempt, commits, thrown, burnOut,
                   lastError, result, retryOptions, delayMs, sleeps, gas>>
    /\ UNCHANGED pvars
    /\ UNCHANGED cvars

\* waitForAttestation line 410: the loop ran out of attempts
AttestTimeout ==
    /\ xpc = "attest_poll"
    /\ ~PollAllowed(pollAttempt)
    /\ Catch("attest", "Attestation timeout after 120 attempts")
    /\ UNCHANGED <<dryRun, amount, allowance, attempt, pollAttempt, calls,
                   commits, finished, burnOut, lastError>>
    /\ UNCHANGED <<retryOptions, delayMs, sleeps, gas, lastPoll>>
    /\ UNCHANGED pvars
    /\ UNCHANGED cvars

\* the planner is at rest while one transfer is executed
PlannerIdle ==
    /\ currentBalances = calculateAllocations(RawBalances([i \in Idx |-> 0])).out
    /\ inputBalances = currentBalances
    /\ targets = MakeTargets([i \in Idx |-> IF i = 1 THEN 100 ELSE 0])
    /\ threshold = 5
    /\ sorted = <<>>
    /\ overAllocated = <<>>
    /\ underAllocated = <<>>
    /\ overIndex = 0
    /\ underIndex = 0
    /\ totalBalance = 0
    /\ actions = <<>>
    /\ lastPair = NoPair
    /\ ppc = "done"
    /\ run = 2
    /\ firstPlan = <<>>
    /\ fault = FALSE

Init ==
    /\ PlannerIdle
    /\ PipelineIdle
    /\ dryRun \in BOOLEAN
    /\ amount \in 1..MaxAmount
    /\ allowance \in 0..(2 * MaxAmount)
    /\ CycleIdle
    /\ runOnce = TRUE
    /\ optTarget = <<>>

Next == Start \/ ApproveCheck \/ ApproveTry \/ BurnTry \/ Poll \/ AttestTimeout \/ MintTry

Spec == Init /\ [][Next]_vars

\* every awaited external call returns or fails: a pipeline step that can be
\* taken is eventually taken
SpecLive == Spec /\ WF_vars(Next)

\* ------------------------------------------------------------------------
\* withRetry on its own: any options.maxAttempts, any gas estimate
\* ------------------------------------------------------------------------
MaxRetryAttempts == 7

\* what contract.<method>.estimateGas can answer: estimates whose buffered
\* value is fractional, just below, just above and far above maxGasLimit
GasEstimates == {50001, 100000, 416666, 416668, 600000}

\* withRetry(operation, options) is entered for one of the three operations
InitRetry ==
    /\ PlannerIdle
    /\ CycleIdle
    /\ runOnce = TRUE
    /\ optTarget = <<>>
    /\ xpc \in {"approve_try", "burn_try", "mint_try"}
    /\ dryRun = FALSE
    /\ amount \in 1..MaxAmount
    /\ allowance \in 0..(2 * MaxAmount)
    /\ attempt = 1
    /\ pollAttempt = 0
    /\ calls = [rpc |-> NoCalls, submitted |-> NoTx]
    /\ commits = NoTx
    /\ finished = {}
    /\ thrown = "none"
    /\ burnOut = NoBurn
    /\ lastError = NoError
    /\ result = NoResult
    /\ retryOptions \in [maxAttempts : 1..MaxRetryAttempts]
    /\ delayMs = InitialDelayMs
    /\ sleeps = <<>>
    /\ gas = NoGas
    /\ lastPoll = NoPoll

ApproveRetry == TryStep("approve_try", "approve", GasEstimates)

BurnRetry == TryStep("burn_try", "burn", GasEstimates)

MintRetry == TryStep("mint_try", "mint", GasEstimates)

NextRetry == ApproveRetry \/ BurnRetry \/ MintRetry

SpecRetry == InitRetry /\ [][NextRetry]_vars

\* ------------------------------------------------------------------------
\* Cycle controller: main and rebalanceCycle (CLI entry point)
\* ------------------------------------------------------------------------
\* values of --target after split(',') and parseFloat
TargetOptions == {<<40, 30, 30>>, <<20, 40, 40>>, <<40, 40, 40>>, <<50, 50>>}

\* parseTargetAllocation: count check, sum check, then one target per chain
parseTargetAllocation(percentages) ==
    IF Len(percentages) # N
    THEN [threw |-> TRUE, out |-> <<>>]
    ELSE IF Abs(SumSeq(percentages) - 100) > 0
    THEN [threw |-> TRUE, out |-> <<>>]
    ELSE [threw |-> FALSE, out |-> MakeTargets(percentages)]

\* what executeTransfer can hand back to the for loop: it returns a
\* TransferResult and never throws; a dry run always returns success
TransferOutcomes(dry) == IF SkipsExecution(dry) THEN {TRUE} ELSE BOOLEAN

\* while (running)
LoopContinuesAlways(r) == TRUE

LoopContinues(r) == r

\* for (const action of actions): the loop has no break
LoopBreaksOnFailure(index, len, err) == index < len /\ ~err

LoopAdvance(index, len, err) == index < len

\* balances before getCurrentState has answered
NoBalances == RawBalances([i \in Idx |-> 0])

\* the locals of rebalanceCycle and generateActions when no cycle is running
FrameEnds ==
    /\ currentBalances' = NoBalances
    /\ inputBalances' = NoBalances
    /\ targets' = <<>>
    /\ sorted' = <<>>
    /\ overAllocated' = <<>>
    /\ underAllocated' = <<>>
    /\ overIndex' = 0
    /\ underIndex' = 0
    /\ totalBalance' = 0
    /\ actions' = <<>>
    /\ lastPair' = NoPair
    /\ firstPlan' = <<>>
    /\ fault' = FALSE
    /\ ppc' = "idle"
    /\ cycleDeviations' = <<>>
    /\ execIndex' = 0
    /\ executed' = <<>>
    /\ outcomes' = <<>>
    /\ hasError' = FALSE
    /\ cycleReturn' = "none"
    /\ readFailed' = {}
    /\ rawBalances' = NoBalances

fetchLocals == <<readFailed, rawBalances>>

planLocals == <<inputBalances, sorted, overAllocated, underAllocated, overIndex,
                underIndex, totalBalance, actions, lastPair, firstPlan>>

execLocals == <<execIndex, executed, outcomes, hasError>>

xrest == <<dryRun, amount, allowance, attempt, pollAttempt, calls, commits,
           finished, thrown, burnOut, lastError, result,
           retryOptions, delayMs, sleeps, gas, lastPoll>>

\* main, while (running): the body is entered and rebalanceCycle runs up to
\* its first await
walletVars == <<walletCache, walletUsed>>

\* getWallet lines 48-56: the cached wallet of the chain, or a new one that
\* is put into the cache
getWalletUncached(cache, name, fresh) ==
    [wallet |-> fresh, cache |-> [cache EXCEPT ![name] = fresh]]

getWallet(cache, name, fresh) ==
    IF cache[name] # 0
    THEN [wallet |-> cache[name], cache |-> cache]
    ELSE [wallet |-> fresh, cache |-> [cache EXCEPT ![name] = fresh]]

\* the getWallet calls of one executeTransfer: executeTransfer, approveUSDC,
\* estimateGas and burnUSDC ask for the source chain, receiveMessage and its
\* estimateGas for the destination chain; a dry run asks for none
WalletCalls(from, to, dry, reachedMint) ==
    IF SkipsExecution(dry) THEN <<>>
    ELSE <<from, from>> \o (IF reachedMint THEN <<to, to>> ELSE <<>>)

\* the getWallet calls made one after the other; a new wallet is a new object
RECURSIVE UseWallets(_, _, _)
UseWallets(cache, used, names) ==
    IF names = <<>> THEN [cache |-> cache, used |-> used]
    ELSE LET name == Head(names)
             g == getWallet(cache, name, Cardinality(used[name]) + 1)
         IN UseWallets(g.cache, [used EXCEPT ![name] = @ \cup {g.wallet}], Tail(names))

CycleStart ==
    /\ mpc = "loop"
    /\ LoopContinues(running)
    /\ cycles < MaxCycles
    /\ mpc' = "cycle"
    /\ cpc' = "fetch"
    /\ cycles' = cycles + 1
    /\ UNCHANGED <<pvars, xvars, running, runOnce, optTarget, walletVars, fetches, fetchLocals,
                   cycleDeviations, execLocals, cycleReturn>>

\* main: the while condition is false, main returns
MainExit ==
    /\ mpc = "loop"
    /\ ~LoopContinues(running)
    /\ mpc' = "exited"
    /\ UNCHANGED <<pvars, xvars, running, runOnce, optTarget, walletVars, cpc, cycles,
                   fetches, fetchLocals, cycleDeviations, execLocals, cycleReturn>>

\* rebalanceCycle: await getCurrentState(walletAddress, chains) answers
CycleFetch ==
    /\ cpc = "fetch"
    /\ fetches' = fetches + 1
    /\ \E b \in BalanceVectors : \E failed \in SUBSET Idx :
         LET reads == [i \in Idx |-> getBalance(i \notin failed, b[i])]
             threw == \E i \in Idx : reads[i].threw
             r == calculateAllocations(RawBalances([i \in Idx |-> reads[i].balance]))
         IN /\ \A i \in failed : b[i] = 0
            /\ readFailed' = failed
            /\ IF threw \/ r.fault
               THEN /\ cpc' = "returned"
                    /\ cycleReturn' = "threw"
                    /\ UNCHANGED <<currentBalances, rawBalances>>
               ELSE /\ cpc' = "decide"
                    /\ currentBalances' = r.out
                    /\ rawBalances' = r.arg
                    /\ UNCHANGED cycleReturn
            /\ fault' = r.fault
    /\ UNCHANGED <<planLocals, targets, threshold, ppc, run>>
    /\ UNCHANGED <<xvars, mpc, running, runOnce, optTarget, walletVars, cycles,
                   cycleDeviations, execLocals>>

\* rebalanceCycle: parse the target, compute the deviations, decide whether
\* to plan
CycleDecide ==
    /\ cpc = "decide"
    /\ LET parsed == parseTargetAllocation(optTarget)
           devs == calculateDeviations(currentBalances, parsed.out)
       IN IF parsed.threw
          THEN /\ cycleReturn' = "threw"
               /\ cpc' = "returned"
               /\ UNCHANGED <<targets, cycleDeviations, ppc>>
          ELSE /\ targets' = parsed.out
               /\ cycleDeviations' = devs
               /\ IF needsRebalancing(devs, threshold)
                  THEN /\ cpc' = "plan"
                       /\ ppc' = "call"
                       /\ UNCHANGED cycleReturn
                  ELSE /\ cpc' = "returned"
                       /\ cycleReturn' = "false"
                       /\ UNCHANGED ppc
    /\ UNCHANGED <<planLocals, currentBalances, threshold, run, fault>>
    /\ UNCHANGED <<xvars, mpc, running, runOnce, optTarget, walletVars, cycles, fetches, fetchLocals,
                   execLocals>>

\* rebalanceCycle: generateActions has returned; an empty plan ends the cycle
CycleAfterPlan ==
    /\ cpc = "plan"
    /\ ppc = "done"
    /\ ppc' = "idle"
    /\ IF actions = <<>>
       THEN /\ cpc' = "returned"
            /\ cycleReturn' = "false"
       ELSE /\ cpc' = "exec"
            /\ UNCHANGED cycleReturn
    /\ UNCHANGED <<planLocals, currentBalances, targets, threshold, run, fault>>
    /\ UNCHANGED <<xvars, mpc, running, runOnce, optTarget, walletVars, cycles, fetches, fetchLocals,
                   cycleDeviations, execLocals>>

\* for loop: the next action is passed to executeTransfer
TransferCall ==
    /\ cpc = "exec"
    /\ LoopAdvance(execIndex, Len(actions), hasError)
    /\ xpc = "idle"
    /\ executed' = Append(executed, actions[execIndex + 1])
    /\ xpc' = "called"
    /\ cpc' = "transfer"
    /\ UNCHANGED <<pvars, xrest, mpc, running, runOnce, optTarget, walletVars, cycles,
                   fetches, fetchLocals, cycleDeviations, execIndex, outcomes, hasError,
                   cycleReturn>>

\* for loop: executeTransfer has returned its TransferResult
TransferReturn ==
    /\ cpc = "transfer"
    /\ xpc = "called"
    /\ \E ok \in TransferOutcomes(dryRun) : \E reachedMint \in BOOLEAN :
         LET action == executed[Len(executed)]
             w == UseWallets(walletCache, walletUsed,
                             WalletCalls(action.from, action.to, dryRun, reachedMint))
         IN /\ ok => (reachedMint \/ SkipsExecution(dryRun))
            /\ outcomes' = Append(outcomes, ok)
            /\ hasError' = (hasError \/ ~ok)
            /\ walletCache' = w.cache
            /\ walletUsed' = w.used
    /\ execIndex' = execIndex + 1
    /\ xpc' = "idle"
    /\ cpc' = "exec"
    /\ UNCHANGED <<pvars, xrest, mpc, running, runOnce, optTarget, cycles,
                   fetches, fetchLocals, cycleDeviations, executed, cycleReturn>>

\* return !hasError
CycleFinish ==
    /\ cpc = "exec"
    /\ ~LoopAdvance(execIndex, Len(actions), hasError)
    /\ cycleReturn' = IF hasError THEN "false" ELSE "true"
    /\ cpc' = "returned"
    /\ UNCHANGED <<pvars, xvars, mpc, running, runOnce, optTarget, walletVars, cycles,
                   fetches, fetchLocals, cycleDeviations, execLocals>>

\* main: rebalanceCycle has returned or thrown into the catch; --once breaks
\* out of the loop, otherwise main sleeps
MainAfterCycle ==
    /\ mpc = "cycle"
    /\ cpc = "returned"
    /\ FrameEnds
    /\ cpc' = "idle"
    /\ mpc' = IF runOnce THEN "exited" ELSE "sleep"
    /\ UNCHANGED <<threshold, run, xvars, running, runOnce, optTarget, walletVars, cycles,
                   fetches>>

\* main: await sleep(interval * 1000) is over
MainWake ==
    /\ mpc = "sleep"
    /\ mpc' = "loop"
    /\ UNCHANGED <<pvars, xvars, running, runOnce, optTarget, walletVars, cpc, cycles,
                   fetches, fetchLocals, cycleDeviations, execLocals, cycleReturn>>

\* the SIGINT handler runs while main is suspended at an await
Signal ==
    /\ mpc = "sleep" \/ cpc \in {"fetch", "transfer"}
    /\ running' = FALSE
    /\ UNCHANGED <<pvars, xvars, mpc, runOnce, optTarget, walletVars, cpc, cycles, fetches, fetchLocals,
                   cycleDeviations, execLocals, cycleReturn>>

InitCycle ==
    /\ currentBalances = NoBalances
    /\ inputBalances = NoBalances
    /\ targets = <<>>
    /\ threshold \in Thresholds
    /\ sorted = <<>>
    /\ overAllocated = <<>>
    /\ underAllocated = <<>>
    /\ overIndex = 0
    /\ underIndex = 0
    /\ totalBalance = 0
    /\ actions = <<>>
    /\ lastPair = NoPair
    /\ ppc = "idle"
    /\ run = 1
    /\ firstPlan = <<>>
    /\ fault = FALSE
    /\ PipelineIdle
    /\ dryRun \in BOOLEAN
    /\ amount = 1
    /\ allowance = 0
    /\ CycleIdle
    /\ runOnce \in BOOLEAN
    /\ optTarget \in TargetOptions

NextCycle ==
    \/ CycleStart
    \/ MainExit
    \/ CycleFetch
    \/ CycleDecide
    \/ PlanCall
    \/ PlanStep
    \/ PlanReturn
    \/ CycleAfterPlan
    \/ TransferCall
    \/ TransferReturn
    \/ CycleFinish
    \/ MainAfterCycle
    \/ MainWake
    \/ Signal

SpecCycle == InitCycle /\ [][NextCycle]_vars

\* ------------------------------------------------------------------------
\* Transfer pipeline properties
\* ------------------------------------------------------------------------
TimeoutMessage == "Attestation timeout after 120 attempts"

\* C1: in a non-dry-run executeTransfer no burn call is made before the
\* approval step has returned, no attestation poll before the burn step has
\* returned with a committed burn, and no mint call before a complete
\* attestation was obtained.
C1_StepOrder ==
    /\ (calls.rpc.burn > 0 \/ xpc = "burn_try") => "approve" \in finished
    /\ (calls.rpc.poll > 0 \/ xpc = "attest_poll") =>
          ("burn" \in finished /\ commits.burn >= 1)
    /\ (calls.rpc.mint > 0 \/ xpc = "mint_try") => "attest" \in finished

C1_Witness ==
    /\ ~dryRun
    /\ result.returned
    /\ result.success
    /\ calls.submitted.approve >= 1
    /\ calls.rpc.poll >= 2
    /\ commits.mint >= 1

\* C9: once an error of a step has reached the catch block, executeTransfer
\* has returned a failure, no further call, poll or commit happens, and the
\* returned outcome is success or failure, never changed afterwards.
C9_FailedAbsorbing ==
    /\ [](thrown # "none" => (xpc = "returned" /\ result.returned /\ ~result.success))
    /\ [](result.returned => (result.success <=> thrown = "none"))
    /\ [][thrown # "none" =>
            (calls' = calls /\ commits' = commits /\ result' = result)]_vars
    /\ [][result.returned => result' = result]_vars

C9_Witness ==
    /\ thrown = "burn"
    /\ result.returned
    /\ calls.rpc.burn = RetryMaxAttempts

\* C10: at most 120 polls are made; when none of them is complete the action
\* fails with the timeout, no mint is attempted and the burn is not
\* submitted again.
C10_AttestationTimeout ==
    /\ [](calls.rpc.poll <= AttestationMaxAttempts)
    /\ [](thrown = "attest" =>
            /\ calls.rpc.poll = AttestationMaxAttempts
            /\ result.returned /\ ~result.success
            /\ result.error = TimeoutMessage
            /\ calls.rpc.mint = 0)
    /\ [][(xpc = "attest_poll" /\ pollAttempt = AttestationMaxAttempts) =>
            thrown' = "attest"]_vars
    /\ [][("burn" \in finished) => calls'.rpc.burn = calls.rpc.burn]_vars

C10_Witness ==
    /\ thrown = "attest"
    /\ commits.burn >= 1
    /\ calls.rpc.poll = AttestationMaxAttempts

NoCallsMade == [rpc |-> NoCalls, submitted |-> NoTx]

\* the deterministic rejections named by the error taxonomy
ClaimedRejections == {"insufficient funds", "nonce too low",
                      "replacement transaction underpriced", "execution reverted"}

IsClaimedRejection(message) ==
    \E msg \in ClaimedRejections : Includes(ToLowerCase(message), msg)

HasNonRetryableSubstring(message) ==
    \E msg \in nonRetryable : Includes(ToLowerCase(message), msg)

\* C11: a failure by attestation timeout reports the message identifier and
\* the burn transaction reference of the committed burn.
C11_TimeoutCarriesReferences ==
    (thrown = "attest" /\ result.returned) =>
        /\ result.messageHash = burnOut.messageHash
        /\ result.burnTxHash = burnOut.txHash

\* C12: an approve transaction is submitted only while the current allowance
\* is less than the amount, retries included.
C12_ApproveOnlyWhenNeeded ==
    [][calls'.submitted.approve > calls.submitted.approve => allowance < amount]_vars

\* C13: in dry-run mode executeTransfer returns success and makes no allowance
\* read, approve, burn, poll or mint call, and no on-chain state changes.
C13_DryRunNoCalls ==
    /\ [](dryRun =>
            /\ xpc \in {"idle", "returned"}
            /\ calls = NoCallsMade
            /\ commits = NoTx
            /\ thrown = "none"
            /\ (xpc = "returned" => (result.returned /\ result.success)))
    /\ [][dryRun => allowance' = allowance]_vars

C13_Witness ==
    /\ dryRun
    /\ xpc = "returned"
    /\ result.success
    /\ allowance < amount

\* C14: an error whose message contains, in any case, one of the four named
\* rejections ends the step at once with that error as the reported error, a
\* rejection at the first attempt after exactly one attempt; every message
\* with none of the non-retryable substrings is classified retryable.
C14_Classification ==
    /\ (lastError # NoError /\ IsClaimedRejection(lastError.message)) =>
          /\ thrown # "none"
          /\ xpc = "returned"
          /\ ~result.success
          /\ result.error = lastError.message
    /\ (lastError # NoError /\ IsClaimedRejection(lastError.message)
          /\ lastError.attempt = 1 /\ thrown \in {"approve", "burn", "mint"}) =>
          calls.rpc[thrown] <= 1
    /\ \A m \in ErrorMessages : ~HasNonRetryableSubstring(m) => isRetryableError(m)

C14_Witness ==
    /\ thrown = "burn"
    /\ lastError.message = "Insufficient Funds for gas"
    /\ calls.rpc.burn = 1
    /\ result.error = "Insufficient Funds for gas"

\* C15: a step of approve, burn or mint that fails the action on a transient
\* error has made three failed attempts.
C15_TransientRetriedThreeTimes ==
    (thrown \in {"approve", "burn", "mint"}
        /\ ~HasNonRetryableSubstring(lastError.message)) =>
        lastError.attempt = RetryMaxAttempts

\* C17: no error leaves executeTransfer: every error of the signer, approve,
\* burn, attestation wait or mint ends in a returned TransferResult with
\* success = false and an error message.
C17_NeverThrows ==
    /\ xpc # "escaped"
    /\ thrown # "none" =>
          /\ xpc = "returned"
          /\ result.returned
          /\ ~result.success
          /\ result.error # "undefined"

C17_Witness ==
    /\ thrown = "wallet"
    /\ result.returned
    /\ ~result.success
    /\ result.error = "PRIVATE_KEY not set"

\* ------------------------------------------------------------------------
\* Properties of the cycle controller
\* ------------------------------------------------------------------------
InFlight == IF cpc = "transfer" THEN 1 ELSE 0

NoDeviationBeyond(devs, t) ==
    \A k \in DOMAIN devs : Abs(devs[k].deviation) <= t * 100

\* C18: when no chain's |deviation| exceeds the threshold the cycle returns
\* "no action": generateActions is not run and executeTransfer is not called
\* in that cycle.
C18_BalancedCycleStops ==
    (cycleDeviations # <<>> /\ NoDeviationBeyond(cycleDeviations, threshold)) =>
        /\ cpc = "returned"
        /\ cycleReturn = "false"
        /\ ppc = "idle"
        /\ sorted = <<>>
        /\ actions = <<>>
        /\ executed = <<>>
        /\ xpc = "idle"

C18_Witness ==
    /\ cpc = "returned"
    /\ cycleReturn = "false"
    /\ threshold = 10
    /\ \E k \in DOMAIN cycleDeviations : cycleDeviations[k].deviation = 1000
    /\ NoDeviationBeyond(cycleDeviations, threshold)

\* C19: once the shutdown signal has arrived no new cycle starts; the signal
\* changes nothing but the running flag, main leaves a cycle only after the
\* cycle has returned, and main exits with no cycle or action in flight.
C19_ShutdownBetweenCycles ==
    /\ [][cycles' > cycles => running]_vars
    /\ [][~running => ~running']_vars
    /\ [][running' # running =>
            UNCHANGED <<pvars, xvars, mpc, runOnce, optTarget, cpc, cycles,
                        fetches, fetchLocals, cycleDeviations, execLocals, cycleReturn>>]_vars
    /\ [][(mpc = "cycle" /\ mpc' # "cycle") => cpc = "returned"]_vars
    /\ [](mpc = "exited" => (cpc = "idle" /\ xpc = "idle"))

C19_Witness ==
    /\ ~running
    /\ cpc = "transfer"
    /\ Len(executed) = 2

\* C20: with a malformed target allocation no balance is fetched and no
\* rebalance cycle is started.
C20_MalformedTargetFatal ==
    parseTargetAllocation(optTarget).threw => (fetches = 0 /\ cycles = 0)

\* C27: the outcome of a failed action records which step failed and a
\* classified error kind, besides the error text.
C27_FailureRecordsStepAndKind ==
    (result.returned /\ ~result.success) =>
        {"step", "kind"} \subseteq DOMAIN result

\* C28: for one action the burn commits on the source chain at most once,
\* retries of the Burning step included.
C28_BurnAtMostOnce == commits.burn <= 1

\* C21: a failed balance read does not abort the cycle: the chain's balance
\* is taken as zero and allocation, deviation and planning go on with it.
C21_FailedReadIsZero ==
    /\ (readFailed # {} /\ cycleReturn = "threw") =>
          (cpc = "returned" /\ parseTargetAllocation(optTarget).threw)
    /\ \A i \in readFailed :
          /\ rawBalances[i].balance = 0
          /\ cpc = "decide" =>
                (currentBalances[i].balance = 0 /\ currentBalances[i].percentage = 0)
          /\ cycleDeviations # <<>> =>
                /\ cycleDeviations[i].current = 0
                /\ cycleDeviations[i].deviation = -(100 * cycleDeviations[i].target)
          /\ sorted # <<>> => inputBalances[i].balance = 0

C21_Witness ==
    /\ readFailed = {2}
    /\ cpc = "exec"
    /\ inputBalances[2].balance = 0
    /\ \E k \in DOMAIN actions : actions[k].to = "polygonAmoy"

\* C25: calculateAllocations returns the balances in the same number and
\* chain order with the same integer balance values, and leaves its input
\* as it was.
C25_AllocationsPreserveBalances ==
    cpc = "decide" =>
        /\ Len(currentBalances) = Len(rawBalances)
        /\ \A i \in DOMAIN rawBalances :
              /\ currentBalances[i].chain = rawBalances[i].chain
              /\ currentBalances[i].balance = rawBalances[i].balance
              /\ rawBalances[i].chain = Chains[i]
              /\ rawBalances[i].percentage = 0

C25_Witness ==
    /\ cpc = "decide"
    /\ rawBalances[1].balance = 1
    /\ rawBalances[2].balance = 2
    /\ rawBalances[3].balance = 2
    /\ currentBalances[1].percentage = 2000

\* ------------------------------------------------------------------------
\* Properties of the pure functions
\* ------------------------------------------------------------------------
\* the percentages of currentBalances, in hundredths of a percent
PercentSum == SumSeq([i \in Idx |-> currentBalances[i].percentage])

C29_CallerBalancesUnchanged ==
    ppc = "done" =>
        \A i \in Idx : currentBalances[i].balance = inputBalances[i].balance

PlannerInvoked == ppc # "idle" \/ sorted # <<>>

\* C23: needsRebalancing is true exactly when some |deviation| is strictly
\* greater than the threshold: false when every |deviation| is at most the
\* threshold, equality included, and false for no deviations at all.
C23_NeedsRebalancingStrict ==
    /\ cycleDeviations # <<>> =>
          (PlannerInvoked <=>
             \E k \in DOMAIN cycleDeviations :
                 Abs(cycleDeviations[k].deviation) > threshold * 100)
    /\ cycleDeviations = <<>> => ~PlannerInvoked
    /\ \A t \in Thresholds : ~needsRebalancing(<<>>, t)

C23_Witness ==
    /\ PlannerInvoked
    /\ threshold = 10
    /\ \E k \in DOMAIN cycleDeviations : cycleDeviations[k].deviation = 1000
    /\ \E k \in DOMAIN cycleDeviations : cycleDeviations[k].deviation < -1000

\* the target entry of a chain, 0 when the list has none
ExplicitTargets(chain) ==
    {targets[j].percentage : j \in {k \in DOMAIN targets : targets[k].chain = chain}}

ExpectedTarget(chain) ==
    IF ExplicitTargets(chain) = {} THEN 0 ELSE CHOOSE x \in ExplicitTargets(chain) : TRUE

\* C24: calculateDeviations gives one deviation per balance in input order,
\* deviation = current% - target% of the chain's own target, and target 0
\* for a chain without a target entry.
C24_DeviationPerBalance ==
    ppc \in {"loop", "done"} =>
        LET d == calculateDeviations(inputBalances, targets) IN
        /\ Len(d) = Len(inputBalances)
        /\ \A i \in DOMAIN inputBalances :
              /\ d[i].chain = inputBalances[i].chain
              /\ d[i].current = inputBalances[i].percentage
              /\ d[i].target = ExpectedTarget(inputBalances[i].chain)
              /\ d[i].deviation = d[i].current - 100 * d[i].target
              /\ \E k \in DOMAIN sorted : sorted[k] = d[i]
        /\ Len(sorted) = Len(d)

C24_Witness ==
    /\ ppc = "loop"
    /\ Len(targets) = 2
    /\ \E k \in DOMAIN sorted :
          /\ sorted[k].chain = "arbitrumSepolia"
          /\ sorted[k].target = 0
          /\ sorted[k].deviation > 0

Transfer(from, to, amt) ==
    [from |-> from, to |-> to, amount |-> amt, type |-> "transfer"]

ExampleOne ==
    /\ inputBalances = calculateAllocations(RawBalances(ExampleBalances)).out
    /\ targets = MakeTargets(ExampleTargets)
    /\ threshold = 5
    /\ ppc = "done"

C30_WorkingBalancesNonNegative ==
    \A i \in Idx : currentBalances[i].balance >= 0

\* ------------------------------------------------------------------------
\* Retry, gas and polling properties
\* ------------------------------------------------------------------------
\* positions of executeTransfer, counted from its return
Rank(pc) ==
    CASE pc = "idle" -> 6
      [] pc = "approve_check" -> 5
      [] pc = "approve_try" -> 4
      [] pc = "burn_try" -> 3
      [] pc = "attest_poll" -> 2
      [] pc = "mint_try" -> 1
      [] OTHER -> 0

\* the external calls executeTransfer can still make, as a number that every
\* step lowers
Remaining ==
    Rank(xpc) * (AttestationMaxAttempts + 1)
    + (CASE xpc = "attest_poll" -> AttestationMaxAttempts - pollAttempt
         [] xpc \in {"approve_try", "burn_try", "mint_try"} -> RetryMaxAttempts - attempt
         [] OTHER -> 0)

\* C32: provided each external call returns or fails, executeTransfer
\* eventually returns a TransferResult: every step of the pipeline lowers a non-negative count of the calls still possible, a call
\* that has not returned can always take a step, and it ends with a result;
\* at most 3 approve, 3 burn and 3 mint submissions and 120 polls are made.
C32_TerminatesWithinBudget ==
    /\ [](/\ Remaining >= 0
          /\ xpc # "returned" => ENABLED Next
          /\ xpc = "returned" => result.returned
          /\ \A step \in {"approve", "burn", "mint"} :
               /\ calls.rpc[step] <= 3
               /\ calls.submitted[step] <= 3
          /\ calls.rpc.poll <= 120)
    /\ [][Remaining' < Remaining]_vars
    /\ <>(xpc = "returned")

C32_Witness ==
    /\ ~dryRun
    /\ xpc = "returned"
    /\ result.success
    /\ calls.submitted.approve = 3
    /\ calls.rpc.poll = 120
    /\ calls.submitted.mint = 3

\* C34: a reported failure implies that no mint was committed, and a
\* committed mint is reported as success.
C34_FailureMeansNoMint ==
    (result.returned /\ commits.mint > 0) => result.success

\* C35: the k-th delay slept by withRetry is min(1000 * 2^(k-1), 30000); the
\* delays never decrease and never exceed 30000; no delay follows the final
\* attempt.
C35_BackoffDelays ==
    /\ \A k \in 1..Len(sleeps) :
         /\ sleeps[k] = IF 1000 * 2^(k - 1) < 30000 THEN 1000 * 2^(k - 1) ELSE 30000
         /\ sleeps[k] <= 30000
         /\ k > 1 => sleeps[k - 1] <= sleeps[k]
    /\ Len(sleeps) <= retryOptions.maxAttempts - 1
    /\ thrown \in {"approve", "burn", "mint"} => Len(sleeps) = lastError.attempt - 1

C35_Witness ==
    /\ Len(sleeps) = 6
    /\ sleeps[5] = 16000
    /\ sleeps[6] = 30000
    /\ thrown = "mint"
    /\ lastError.attempt = 7

\* C36: the gas limit of every submitted transaction is
\* min(floor(estimate * 120 / 100), 500000), from the estimate taken for that
\* submission; it never exceeds 500000, and an estimate above the ceiling
\* is submitted at the ceiling.
C36_GasLimit ==
    gas # NoGas =>
        /\ gas.limit = IF (gas.estimate * 120) \div 100 > 500000
                       THEN 500000
                       ELSE (gas.estimate * 120) \div 100
        /\ gas.limit <= 500000

C36_Witness ==
    /\ gas.estimate = 600000
    /\ gas.limit = 500000
    /\ calls.submitted.mint = 2
    /\ "mint" \in finished

\* C37: the sleep after a poll that did not complete is 5000 ms for attempts
\* 1..12 and 10000 ms for attempts 13..120.
C37_PollInterval ==
    /\ pollAttempt <= 120
    /\ lastPoll.outcome \notin {"none", "complete"} =>
           lastPoll.interval = IF pollAttempt <= 12 THEN 5000 ELSE 10000

C37_Witness ==
    /\ pollAttempt = 13
    /\ lastPoll.interval = 10000
    /\ xpc = "attest_poll"

\* C38: every poll counts as one attempt; a poll that is not complete with
\* both fields leaves the action running and unfailed; the first complete
\* poll ends the wait successfully; the wait fails only at the ceiling.
C38_PollFailuresAbsorbed ==
    [][xpc = "attest_poll" =>
         /\ pollAttempt' # pollAttempt =>
              /\ pollAttempt' = pollAttempt + 1
              /\ IF lastPoll'.outcome = "complete"
                 THEN xpc' = "mint_try" /\ "attest" \in finished'
                 ELSE xpc' = "attest_poll" /\ "attest" \notin finished'
              /\ thrown' = "none"
              /\ ~result'.returned
         /\ thrown' # "none" =>
              /\ thrown' = "attest"
              /\ pollAttempt = AttestationMaxAttempts
              /\ pollAttempt' = pollAttempt]_vars

C38_Witness ==
    /\ pollAttempt = 3
    /\ lastPoll.outcome = "complete"
    /\ xpc = "mint_try"

\* C39: a burn whose receipt has no MessageSent event still finishes: the
\* message hash is the burn transaction's hash, and polling uses it as key.
C39_TxHashFallback ==
    /\ "burn" \in finished =>
          /\ burnOut.txHash = "burnTx"
          /\ burnOut.messageHash \in {"keccak256(messageBytes)", burnOut.txHash}
          /\ thrown # "burn"
          /\ xpc \in {"attest_poll", "mint_try", "returned"}
    /\ lastPoll # NoPoll => lastPoll.key = burnOut.messageHash

C39_Witness ==
    /\ burnOut.messageHash = burnOut.txHash
    /\ lastPoll.key = "burnTx"
    /\ lastPoll.outcome = "complete"

\* ------------------------------------------------------------------------
\* Plan order and size
\* ------------------------------------------------------------------------
\* the place of a chain in one of the two partitions
PosIn(list, chain) == CHOOSE k \in 1..Len(list) : list[k].chain = chain

\* C31: sources are taken in descending order of deviation, destinations in
\* ascending order of deviation, and every pairing measures excess against
\* the target amount of the pool total taken when planning started.
C31_EmissionOrder ==
    ppc \in {"loop", "done"} =>
        /\ \A i, j \in 1..Len(overAllocated) :
             i < j => overAllocated[i].deviation >= overAllocated[j].deviation
        /\ \A i, j \in 1..Len(underAllocated) :
             i < j => underAllocated[i].deviation <= underAllocated[j].deviation
        /\ \A k, l \in 1..Len(actions) :
             k < l =>
               /\ PosIn(overAllocated, actions[k].from)
                     <= PosIn(overAllocated, actions[l].from)
               /\ PosIn(underAllocated, actions[k].to)
                     <= PosIn(underAllocated, actions[l].to)
        /\ totalBalance = Total(inputBalances)
        /\ lastPair # NoPair =>
             LET moved == IF lastPair.emitted THEN lastPair.transferAmount ELSE 0
                 poolTarget(chain) ==
                     BigIntDiv(Total(inputBalances) * TargetPctOf(targets, chain) * 100,
                               10000)
             IN /\ lastPair.excessFrom =
                      BalanceOf(currentBalances, lastPair.from) + moved
                      - poolTarget(lastPair.from)
                /\ lastPair.deficitTo =
                      poolTarget(lastPair.to)
                      - (BalanceOf(currentBalances, lastPair.to) - moved)

C31_Witness ==
    /\ ppc = "done"
    /\ Len(overAllocated) = 2
    /\ overAllocated[1].deviation > overAllocated[2].deviation
    /\ Len(actions) = 2
    /\ actions[1].from = overAllocated[1].chain
    /\ actions[2].from = overAllocated[2].chain

C40_OneWalletPerChain ==
    \A name \in DOMAIN walletUsed :
        /\ Cardinality(walletUsed[name]) <= 1
        /\ walletUsed[name] # {} => walletUsed[name] = {walletCache[name]}

C40_Witness ==
    /\ ~dryRun
    /\ Len(outcomes) = 2
    /\ executed[1].from = executed[2].from
    /\ walletUsed[executed[1].from] # {}
    /\ walletUsed[executed[2].to] # {}

====
